---- MODULE Spec2Model ----
(***************************************************************************)
(* Model of src/src/derive.ts: a read-only store derived from N source     *)
(* stores.  The bookkeeping store's fields are the variables depsState,    *)
(* prevDepsState, state, prevState, listeners and depsSubs.  A JavaScript  *)
(* Set holds an insertion-ordered entry list in which delete leaves an     *)
(* empty slot; forEach walks that list by index.  `listeners` is the entry *)
(* list of the Set object the bookkeeping store refers to; a forEach in    *)
(* progress walks either that very object (alias) or an older Set object   *)
(* that subscribe has since replaced (its own entries).  Source stores     *)
(* notify synchronously, so a listener that sets a source runs a nested    *)
(* reaction; the call stack of fan-outs in progress is `stack`.            *)
(***************************************************************************)
EXTENDS Integers, Sequences, FiniteSets, TLC

\* ---------------------------------------------------------------- bounds
NumSources == 2
MaxOps == 2
MaxHandles == 2

\* ---------------------------------------------------------------- inputs
Listeners == {"A", "B"}
Combines == {"sum", "hist"}
\* a combine function that throws for some inputs
PartialCombines == {"strict"}
Sources == 1..NumSources
\* the values source store i can hold
Dom(i) == IF i = 1 THEN {2, 10} ELSE {3, 10}
Stores == {s \in [Sources -> {2, 3, 10}] : \A i \in Sources : s[i] \in Dom(i)}

null == -1
nullDeps == <<>>
\* the outcome of a call of onChange that throws
Threw == -2
\* no notification on record
Unset == -3
None == "none"
Empty == "-"

VARIABLES
  src,            \* current value of every source store
  constructed,    \* whether derive(...) has run
  combineId,      \* which onChange function was passed to derive
  depsState, prevDepsState, state, prevState,   \* bookkeeping store fields
  listeners,      \* bookkeeping field `listeners`: entries of the live Set
  depsSubs,       \* bookkeeping field `depsSubs`: one handle per source
  srcSubs,        \* sources whose listener set holds the reaction
  stack,          \* fan-outs (forEach loops) in progress, innermost last
  ops,            \* calls made by listeners since the outermost update began
  handles,        \* per listener: unsubscribe closures not yet called / called
  cancelled,      \* per listener: a handle was called since its last subscribe
  thrown,         \* the error the most recent call threw, if it threw
  nReact,         \* source-change reactions run so far: 0, 1, 2 for more
  did,            \* what the most recent call did: reactions entered, calls
                  \* of onChange, four-field writes, forEach loops started
  last            \* per subscribed listener: the newState it was last called
                  \* with, or getState() when it was subscribed

vars == <<src, constructed, combineId, depsState, prevDepsState, state,
          prevState, listeners, depsSubs, srcSubs, stack, ops, handles,
          cancelled, thrown, nReact, did, last>>

book == <<depsState, prevDepsState, state, prevState, listeners, depsSubs>>

\* what a call did
Did(n, c, w, f) == [notified |-> n, combine |-> c, write |-> w, fanout |-> f]
Idle == Did(0, 0, 0, 0)

\* ------------------------------------------------------- pure helpers
RECURSIVE Sum(_)
Sum(d) == IF d = <<>> THEN 0 ELSE Head(d) + Sum(Tail(d))

RECURSIVE Weighted(_)
Weighted(d) == IF d = <<>> THEN 0 ELSE Len(d) * d[Len(d)] + Weighted(SubSeq(d, 1, Len(d) - 1))

\* The onChange argument of derive: a pure function of (depsState,
\* prevDepsState, prevState).  Two total instances are explored: the sum of
\* the sources, and a function that reads all three arguments, is sensitive
\* to slot order and returns null when the last source holds 10.  A third one,
\* "strict", is the sum except that it throws when the first slot holds 10.
onChange(d, pd, ps) ==
  IF combineId = "sum" THEN Sum(d)
  ELSE IF combineId = "strict" THEN (IF d[1] = 10 THEN Threw ELSE Sum(d))
  ELSE IF d[Len(d)] = 10 THEN null
  ELSE (Weighted(d) + (IF pd = nullDeps THEN 1 ELSE Weighted(pd))
                    + (IF ps = null THEN 0 ELSE ps)) % 3

\* mutant: the source values collected in the opposite order
initialDepsStateReversed(s) == [i \in Sources |-> s[NumSources + 1 - i]]

\* stores.map((store) => store.getState())
initialDepsState(s) == [i \in Sources |-> s[i]]

\* mutant: the new value written to the first slot whatever the index
newDepsStateFirstSlot(cur, index, depState) == [cur EXCEPT ![1] = depState]

\* [...currentDepsState] with slot index replaced
newDepsState(cur, index, depState) == [cur EXCEPT ![index] = depState]

\* mutant: prevState || newState
CoalesceFalsy(p, n) == IF p = null \/ p = 0 THEN n ELSE p

\* prevState ?? newState
Coalesce(p, n) == IF p = null THEN n ELSE p

\* mutant: the write leaves prevDepsState as it was
ReactionWriteKeepsPrevDeps(cur, new, ps, ns) ==
  [prevDepsState |-> prevDepsState, depsState |-> new, prevState |-> ps, state |-> ns]

\* mutant: the new tuple is built by writing slot index of the current one,
\* so that the tuple stored as prevDepsState is the new tuple too
ReactionWriteInPlace(cur, new, ps, ns) ==
  [prevDepsState |-> new, depsState |-> new, prevState |-> ps, state |-> ns]

\* the four-field write of the reaction
ReactionWrite(cur, new, ps, ns) ==
  [prevDepsState |-> cur, depsState |-> new, prevState |-> ps, state |-> ns]

\* Set objects
Compact(entries) == SelectSeq(entries, LAMBDA e : e # Empty)
Elems(entries) == {entries[k] : k \in 1..Len(entries)} \ {Empty}

\* mutant: an array of listeners, [...old, listener]
NewListenersAppend(entries, l) == Append(Compact(entries), l)

\* new Set([...old, listener])
NewListeners(entries, l) ==
  IF l \in Elems(entries) THEN Compact(entries) ELSE Append(Compact(entries), l)

\* Set.prototype.delete
SetDelete(entries, l) ==
  [k \in 1..Len(entries) |-> IF entries[k] = l THEN Empty ELSE entries[k]]

\* Set.prototype.forEach: the next non-empty entry at or after idx, 0 if none
NextIndex(entries, idx) ==
  LET c == {k \in idx..Len(entries) : entries[k] # Empty}
  IN IF c = {} THEN 0 ELSE CHOOSE k \in c : \A m \in c : k <= m

\* ------------------------------------------------------- call stack
Top == stack[Len(stack)]
\* the Set object a forEach walks
FrameSet(f) == IF f.alias THEN listeners ELSE f.entries
\* empty slots of the live Set matter only to a forEach walking it
Norm(entries, stk) ==
  IF \E k \in 1..Len(stk) : stk[k].alias THEN entries ELSE Compact(entries)
\* subscribe replaces the live Set: a forEach walking the old object keeps it
Detach(stk) ==
  [k \in 1..Len(stk) |->
     IF stk[k].alias THEN [stk[k] EXCEPT !.alias = FALSE, !.entries = listeners]
     ELSE stk[k]]

\* a call comes from outside any fan-out, or from the listener now running;
\* MaxOps bounds the state-changing calls listeners make during one
\* outermost source update
CanCall == stack # <<>> => ops < MaxOps
Charge == IF stack = <<>> THEN 0 ELSE ops + 1

\* ------------------------------------------------------------- Init
\* before derive is called: the source stores exist and hold values; cs are
\* the onChange functions a run may pass to derive
Start(cs) ==
  /\ src \in Stores
  /\ constructed = FALSE
  /\ combineId \in cs
  /\ depsState = nullDeps
  /\ prevDepsState = nullDeps
  /\ state = null
  /\ prevState = null
  /\ listeners = <<>>
  /\ depsSubs = <<>>
  /\ srcSubs = {}
  /\ stack = <<>>
  /\ ops = 0
  /\ handles = [l \in Listeners |-> [live |-> 0, stale |-> FALSE]]
  /\ cancelled = [l \in Listeners |-> FALSE]
  /\ thrown = None
  /\ nReact = 0
  /\ did = Idle
  /\ last = [l \in Listeners |-> Unset]

\* onChange is total
Init == Start(Combines)
\* onChange throws for some inputs
InitPartial == Start(PartialCombines)
\* the handles of depsSubs are called by the code that holds the store
InitTeardown == Start({"sum"})

\* ------------------------------------------------------------- derive
\* lines 45-80: the bookkeeping store as constructed
InitialBook(s) ==
  [depsState |-> initialDepsState(s), prevDepsState |-> nullDeps,
   state |-> onChange(initialDepsState(s), nullDeps, null), prevState |-> null]

\* mutant: the handles are collected in the opposite order
depsSubsReversed == [i \in Sources |-> NumSources + 1 - i]

\* stores.map((depStore, index) => depStore.subscribe(...)): the handle at
\* index i is the one source store i returned; a handle is represented by the
\* source it unsubscribes the reaction from
depsSubsArray == [i \in Sources |-> i]

\* an onChange that throws at line 77 ends derive before anything exists
derive ==
  /\ ~constructed
  /\ did' = Did(0, 1, 0, 0)
  /\ IF InitialBook(src).state = Threw
       THEN /\ thrown' = "CombineError"
            /\ UNCHANGED <<constructed, srcSubs>>
            /\ UNCHANGED book
       ELSE /\ constructed' = TRUE
            /\ depsState' = InitialBook(src).depsState
            /\ prevDepsState' = InitialBook(src).prevDepsState
            /\ state' = InitialBook(src).state
            /\ prevState' = InitialBook(src).prevState
            /\ listeners' = <<>>
            /\ srcSubs' = Sources
            /\ depsSubs' = depsSubsArray
            /\ thrown' = None
  /\ UNCHANGED <<src, combineId, stack, ops, handles, cancelled, nReact, last>>

\* the facade's getState: () => store.getState().state
GetState == state

\* ------------------------------------------- source-change reaction
\* mutant: the closure reads store.getState().prevState instead of .state
FrameStorePrev(ns, ps) ==
  [alias |-> TRUE, entries |-> <<>>, idx |-> 1, newState |-> ns,
   prevState |-> prevState,
   running |-> None, owed |-> Elems(listeners), told |-> {}, later |-> {}]

\* the forEach loop of one reaction: the Set it walks, its position, the
\* closure's newState and prevState, the listener now running;
\* owed: listeners of the Set at the start not yet notified nor unsubscribed,
\* told: listeners this forEach has called,
\* later: listeners already notified of an update newer than this one
Frame(ns, ps) ==
  [alias |-> TRUE, entries |-> <<>>, idx |-> 1, newState |-> ns, prevState |-> ps,
   running |-> None, owed |-> Elems(listeners), told |-> {}, later |-> {}]

\* the arguments of listener(newState, prevState ?? newState)
CallArgs(f) == <<f.newState, Coalesce(f.prevState, f.newState)>>

\* forEach moves on: it calls the next listener of its Set, or it is done and
\* the reaction returns to the source's setState and so to its caller
Advance(stk, live) ==
  LET f == stk[Len(stk)]
      walked == IF f.alias THEN live ELSE f.entries
      k == NextIndex(walked, f.idx)
      rest == SubSeq(stk, 1, Len(stk) - 1)
  IN IF k # 0
       THEN [stk EXCEPT ![Len(stk)].running = walked[k],
                        ![Len(stk)].idx = k + 1,
                        ![Len(stk)].owed = @ \ {walked[k]},
                        ![Len(stk)].told = @ \cup {walked[k]}]
     ELSE IF rest = <<>> THEN rest
     ELSE [rest EXCEPT ![Len(rest)].later = @ \cup f.later \cup f.told]

\* the ghost `last` after forEach moved from stack `before` to `after`: a
\* listener was called unless the loop ended
Record(before, after) ==
  IF after # <<>> /\ Len(after) = Len(before)
       /\ after[Len(after)].running \in Elems(listeners)
    THEN [last EXCEPT ![after[Len(after)].running] = after[Len(after)].newState]
    ELSE last

\* mutant: depsState is stored before onChange is called
AbortWriteDepsFirst(cur, new) ==
  [prevDepsState |-> prevDepsState, depsState |-> new,
   prevState |-> prevState, state |-> state]

\* the bookkeeping fields when onChange throws at line 95: line 97 is not
\* reached and newDepsState is a local
AbortWrite(cur, new) ==
  [prevDepsState |-> prevDepsState, depsState |-> cur,
   prevState |-> prevState, state |-> state]

\* lines 84-95 when onChange throws: the error leaves the reaction and the
\* source's setState; each listener callback it passes through may catch it,
\* and a forEach it is not caught in is abandoned (n loops are abandoned)
ReactionAbort(index, depState) ==
  LET currentDepsState == depsState
      new == newDepsState(currentDepsState, index, depState)
      w == AbortWrite(currentDepsState, new)
  IN /\ prevDepsState' = w.prevDepsState
     /\ depsState' = w.depsState
     /\ prevState' = w.prevState
     /\ state' = w.state
     /\ thrown' = "CombineError"
     /\ did' = Did(1, 1, 0, 0)
     /\ \E n \in 0..Len(stack) :
          /\ stack' = SubSeq(stack, 1, Len(stack) - n)
          /\ listeners' = Norm(listeners, stack')
          /\ ops' = IF stack' = <<>> THEN 0 ELSE ops + 1
     /\ UNCHANGED <<depsSubs, nReact, last>>

\* lines 83-110: read, recompute, one write, then forEach over the listeners
Reaction(index, depState) ==
  LET currentDepsState == depsState
      new == newDepsState(currentDepsState, index, depState)
      ps == state
      ns == onChange(new, currentDepsState, ps)
      w == ReactionWrite(currentDepsState, new, ps, ns)
      entered == Append(stack, Frame(ns, ps))
  IN /\ prevDepsState' = w.prevDepsState
     /\ depsState' = w.depsState
     /\ prevState' = w.prevState
     /\ state' = w.state
     /\ stack' = Advance(entered, listeners)
     /\ last' = Record(entered, stack')
     /\ nReact' = IF nReact = 0 THEN 1 ELSE 2
     /\ thrown' = None
     /\ did' = Did(1, 1, 1, 1)
     /\ ops' = Charge
     /\ UNCHANGED <<listeners, depsSubs>>

\* the reaction's call of onChange throws
Throws(index, depState) ==
  onChange(newDepsState(depsState, index, depState), depsState, state) = Threw

\* a source store's setState: store the value, notify its listeners
SourceSetState(index, x) ==
  /\ CanCall
  /\ src' = [src EXCEPT ![index] = x]
  /\ IF index \notin srcSubs
       THEN /\ ops' = Charge
            /\ thrown' = None
            /\ did' = Idle
            /\ UNCHANGED <<stack, depsState, prevDepsState, state, prevState,
                           listeners, depsSubs, nReact, last>>
       ELSE IF Throws(index, x) THEN ReactionAbort(index, x)
       ELSE Reaction(index, x)
  /\ UNCHANGED <<constructed, combineId, srcSubs, handles, cancelled>>

\* the running listener returns to forEach
ListenerReturn ==
  /\ stack # <<>>
  /\ stack' = Advance([stack EXCEPT ![Len(stack)].running = None], listeners)
  /\ last' = Record(stack, stack')
  /\ listeners' = Norm(listeners, stack')
  /\ ops' = IF stack' = <<>> THEN 0 ELSE ops
  /\ thrown' = None
  /\ did' = Idle
  /\ UNCHANGED <<src, constructed, combineId, srcSubs, handles, cancelled, nReact>>
  /\ UNCHANGED <<depsState, prevDepsState, state, prevState, depsSubs>>

\* ------------------------------------------------------------- facade
\* mutant: the derived value is recomputed on every read
getStateRecomputes ==
  /\ constructed
  /\ state' = onChange(depsState, prevDepsState, prevState)
  /\ thrown' = None
  /\ did' = Did(0, 1, 0, 0)
  /\ UNCHANGED <<src, constructed, combineId, srcSubs, handles, cancelled, stack, ops, nReact, last>>
  /\ UNCHANGED <<depsState, prevDepsState, prevState, listeners, depsSubs>>

\* () => store.getState().state
getState ==
  /\ constructed
  /\ thrown' = None
  /\ did' = Idle
  /\ UNCHANGED <<src, constructed, combineId, srcSubs, handles, cancelled, stack, ops, nReact, last>>
  /\ UNCHANGED book

\* mutant: store.setState replaces the bookkeeping state by {listeners}
\* instead of merging into it, and depsSubs is lost
subscribeReplaces(l) ==
  /\ constructed
  /\ CanCall
  /\ handles[l].live < MaxHandles
  /\ listeners' = NewListeners(listeners, l)
  /\ depsSubs' = <<>>
  /\ stack' = Detach(stack)
  /\ ops' = Charge
  /\ handles' = [handles EXCEPT ![l].live = @ + 1]
  /\ cancelled' = [cancelled EXCEPT ![l] = FALSE]
  /\ last' = IF l \in Elems(listeners) THEN last ELSE [last EXCEPT ![l] = GetState]
  /\ thrown' = None
  /\ did' = Idle
  /\ UNCHANGED <<src, constructed, combineId, srcSubs, nReact>>
  /\ UNCHANGED <<depsState, prevDepsState, state, prevState>>

\* lines 117-123; the closure of lines 124-130 is the action unsubscribe
subscribe(l) ==
  /\ constructed
  /\ CanCall
  /\ handles[l].live < MaxHandles
  /\ listeners' = NewListeners(listeners, l)
  /\ stack' = Detach(stack)
  /\ ops' = Charge
  /\ handles' = [handles EXCEPT ![l].live = @ + 1]
  /\ cancelled' = [cancelled EXCEPT ![l] = FALSE]
  /\ last' = IF l \in Elems(listeners) THEN last ELSE [last EXCEPT ![l] = GetState]
  /\ thrown' = None
  /\ did' = Idle
  /\ UNCHANGED <<src, constructed, combineId, srcSubs, nReact>>
  /\ UNCHANGED <<depsState, prevDepsState, state, prevState, depsSubs>>

\* the closure returned by subscribe(l); fresh: its first call
unsubscribe(l, fresh) ==
  /\ constructed
  /\ CanCall
  /\ IF fresh THEN handles[l].live > 0 ELSE handles[l].stale
  /\ listeners' = Norm(SetDelete(listeners, l), stack)
  /\ stack' = [k \in 1..Len(stack) |-> [stack[k] EXCEPT !.owed = @ \ {l}]]
  /\ ops' = Charge
  /\ handles' = IF fresh THEN [handles EXCEPT ![l].live = @ - 1, ![l].stale = TRUE]
                ELSE handles
  /\ cancelled' = [cancelled EXCEPT ![l] = TRUE]
  /\ last' = [last EXCEPT ![l] = Unset]
  /\ thrown' = None
  /\ did' = Idle
  /\ UNCHANGED <<src, constructed, combineId, srcSubs, nReact>>
  /\ UNCHANGED <<depsState, prevDepsState, state, prevState, depsSubs>>

\* mutant: the value is written before the error is thrown
setStateWrites(x) ==
  /\ constructed
  /\ state' = x
  /\ thrown' = "SetStateError"
  /\ did' = Idle
  /\ UNCHANGED <<src, constructed, combineId, srcSubs, handles, cancelled, stack, ops, nReact, last>>
  /\ UNCHANGED <<depsState, prevDepsState, prevState, listeners, depsSubs>>

\* throw new SetStateError(...)
setState(x) ==
  /\ constructed
  /\ thrown' = "SetStateError"
  /\ did' = Idle
  /\ UNCHANGED <<src, constructed, combineId, srcSubs, handles, cancelled, stack, ops, nReact, last>>
  /\ UNCHANGED book

\* depsSubs[i](): the unsubscribe handle source store i returned for the
\* reaction; the source's listener set no longer holds the reaction
depsSubsCall(i) ==
  /\ constructed
  /\ CanCall
  /\ i \in DOMAIN depsSubs
  /\ srcSubs' = srcSubs \ {depsSubs[i]}
  /\ ops' = Charge
  /\ thrown' = None
  /\ did' = Idle
  /\ UNCHANGED <<src, constructed, combineId, stack, handles, cancelled, nReact, last>>
  /\ UNCHANGED book

Next ==
  \/ derive
  \/ \E i \in Sources : \E x \in Dom(i) : SourceSetState(i, x)
  \/ ListenerReturn
  \/ getState
  \/ \E l \in Listeners : subscribe(l)
  \/ \E l \in Listeners, fresh \in BOOLEAN : unsubscribe(l, fresh)
  \/ \E x \in Dom(1) : setState(x)

Spec == Init /\ [][Next]_vars

\* the same operations with an onChange that may throw
SpecPartial == InitPartial /\ [][Next]_vars

\* the operations and the calls of the handles kept in depsSubs
NextTeardown ==
  \/ Next
  \/ \E i \in Sources : depsSubsCall(i)

SpecTeardown == InitTeardown /\ [][NextTeardown]_vars

TypeOK ==
  /\ src \in Stores
  /\ ops \in 0..MaxOps
  /\ Len(stack) <= MaxOps + 1
  /\ Elems(listeners) \subseteq Listeners
  /\ \A k \in 1..Len(stack) : stack[k].running # None

\* =================================================================
\* Properties
\* =================================================================
\* a step in which forEach calls a listener: a reaction starts its forEach on
\* a non-empty Set, or a listener returns and the forEach moves to the next
InvokeStep ==
  /\ stack' # <<>>
  /\ IF Len(stack') > Len(stack) THEN TRUE
     ELSE Len(stack') = Len(stack) /\ stack'[Len(stack')].idx # stack[Len(stack)].idx
Called == stack'[Len(stack')].running
CalledWith == CallArgs(stack'[Len(stack')])
\* the calls of the first reaction after construction
FirstUpdateCall == InvokeStep /\ nReact' = 1 /\ Len(stack') = 1

\* C1 (consistency): in every state after construction, also inside a
\* listener callback and during a nested reaction, getState() equals
\* onChange applied to the recorded depsState, prevDepsState and prevState.
ConsistencyLaw ==
  constructed => GetState = onChange(depsState, prevDepsState, prevState)

\* C1 witness: a listener is running inside a fan-out of the history-reading
\* combine function, after more than one reaction.
ConsistencyWitness ==
  /\ constructed /\ combineId = "hist" /\ nReact = 2 /\ Len(stack) = 2
  /\ state # null /\ prevState # null /\ prevDepsState # depsState

\* C2 (listener fan-out), as claimed: every call of a listener passes a
\* newState equal to getState() at that moment, no fan-out calls a listener
\* twice, and a fan-out ends only when every listener that was subscribed at
\* its start and has not been unsubscribed since has been called.
FanOutLaw ==
  [][/\ InvokeStep => CalledWith[1] = GetState'
     /\ (InvokeStep /\ Len(stack') = Len(stack)) => Called \notin Top.told
     /\ Len(stack') < Len(stack) => Top.owed = {}]_vars

\* C3 (unsubscribe), as claimed: a listener whose unsubscribe handle has been
\* called, and that has not been subscribed again since, is never called.
UnsubscribeLaw ==
  [][InvokeStep => ~cancelled[Called]]_vars

\* C4 (no deduplication), as claimed: when a listener has two handles not yet
\* called and is subscribed, calling one of the two leaves it subscribed.
NoDeduplication ==
  [][\A l \in Listeners :
       (handles[l].live = 2 /\ handles'[l].live = 1 /\ l \in Elems(listeners))
         => l \in Elems(listeners')]_vars

\* C4 amended: the listener set holds a listener value at most once however
\* often it is subscribed; subscribing a listener that is already in the set
\* leaves the set's members as they are; and the first call of any handle of
\* a listener removes the listener from the set, so that a fan-out started
\* afterwards does not call it.
SubscribeDeduplicates ==
  /\ [](\A j, k \in 1..Len(listeners) :
          (listeners[j] = listeners[k] /\ listeners[j] # Empty) => j = k)
  /\ [][\A l \in Listeners :
          /\ (handles'[l].live = handles[l].live + 1 /\ l \in Elems(listeners))
               => Elems(listeners') = Elems(listeners)
          /\ handles'[l].live = handles[l].live - 1 => l \notin Elems(listeners')
          /\ (Len(stack') > Len(stack) /\ Called = l) => l \in Elems(listeners)]_vars

\* C4 witness: one listener has been subscribed twice, neither handle has
\* been called, and the set holds it once.
DeduplicationWitness ==
  \E l \in Listeners :
    /\ handles[l] = [live |-> 2, stale |-> FALSE]
    /\ listeners = <<l>>

\* C5 (propagation): depsState has one slot per source; a step that changes
\* source i leaves depsState[i] equal to the source's new value and every
\* other slot as it was; every slot holds its source's latest value.
PropagationLaw ==
  /\ [](constructed => /\ Len(depsState) = NumSources
                       /\ \A i \in Sources : depsState[i] = src[i])
  /\ [][constructed =>
          \A i \in Sources :
            src'[i] # src[i] =>
              /\ depsState'[i] = src'[i]
              /\ \A j \in Sources \ {i} : depsState'[j] = depsState[j]]_vars

\* C5 witness: the second source has been set to 10, the first never changed.
PropagationWitness ==
  /\ constructed /\ nReact = 1
  /\ depsState = <<2, 10>> /\ prevDepsState = <<2, 3>>

\* C6 (initial value): as long as no source has notified, getState() is
\* onChange applied to the sources' values in source-list order, null, null.
InitialValueLaw ==
  (constructed /\ nReact = 0) => GetState = onChange(src, nullDeps, null)

\* C6 witness: a freshly constructed store over sources holding 10 and 3,
\* with the order-sensitive combine function.
InitialValueWitness ==
  /\ constructed /\ nReact = 0 /\ combineId = "hist"
  /\ src = <<10, 3>> /\ GetState = 2

\* C7 (read-only): a call of the facade's setState throws SetStateError and
\* changes neither the bookkeeping fields nor a source nor the fan-outs in
\* progress (no listener is called).
ReadOnlyLaw ==
  [][thrown' = "SetStateError" =>
       UNCHANGED <<depsState, prevDepsState, state, prevState, listeners,
                   depsSubs, src, srcSubs, stack>>]_vars

\* C7 witness: setState has just thrown inside a listener callback.
ReadOnlyWitness ==
  /\ thrown = "SetStateError" /\ stack # <<>> /\ nReact = 2

\* the calls of a reaction: the first passes newState = onChange(new
\* depsState, depsState before, state before) and, as previous value, the
\* state before when it is not null, else newState; the later calls of the
\* same reaction pass the same two values
ArgumentsRule ==
  /\ (InvokeStep /\ Len(stack') > Len(stack)) =>
        /\ CalledWith[1] = onChange(src', depsState, state)
        /\ CalledWith[2] = (IF state # null THEN state ELSE CalledWith[1])
  /\ \A k \in 1..Len(stack) :
        k <= Len(stack') => CallArgs(stack'[k]) = CallArgs(stack[k])
\* the first update after construction over sources 2 and 3 with sum sets
\* source i to 10 and calls a listener
ExampleUpdate(i) ==
  /\ combineId = "sum" /\ nReact = 0 /\ constructed
  /\ src = <<2, 3>> /\ src' = [src EXCEPT ![i] = 10]
  /\ InvokeStep

\* C8 (notification arguments), as claimed: the rule above, and in the
\* example setting the second source to 10 calls listeners with (13, 5).
NotificationArgumentsAsClaimed ==
  [][ArgumentsRule /\ (ExampleUpdate(2) => CalledWith = <<13, 5>>)]_vars

\* C8 amended: the rule above, and in the example it is setting the first
\* source to 10 that calls listeners with (13, 5); setting the second source
\* to 10 calls them with (12, 5).
NotificationArguments ==
  [][/\ ArgumentsRule
     /\ ExampleUpdate(1) => CalledWith = <<13, 5>>
     /\ ExampleUpdate(2) => CalledWith = <<12, 5>>]_vars

\* C8 witness: sources 2 and 3, sum; the first update sets the first source
\* to 10 and a listener is running, called with (13, 5).
NotificationArgumentsWitness ==
  /\ combineId = "sum" /\ nReact = 1 /\ Len(stack) = 1
  /\ prevDepsState = <<2, 3>> /\ depsState = <<10, 3>>
  /\ CallArgs(Top) = <<13, 5>>

\* C9 (run to completion), as claimed: a listener is never notified of an
\* update after it has been notified of a newer one.
RunToCompletionOrder ==
  [][(InvokeStep /\ Len(stack') = Len(stack)) => Called \notin Top.later]_vars

\* C10 (first-notification masking), as claimed: every call of the first
\* reaction after construction passes the new value as previous value.
FirstNotificationMasked ==
  [][FirstUpdateCall => CalledWith[2] = CalledWith[1]]_vars

\* C10 amended: every call of the first reaction after construction passes
\* as previous value the value computed at construction, unless that value
\* is null, and then the new value.
FirstNotificationPrevious ==
  [][FirstUpdateCall =>
       CalledWith[2] = (IF onChange(prevDepsState', nullDeps, null) # null
                        THEN onChange(prevDepsState', nullDeps, null)
                        ELSE GetState')]_vars

\* C10 witness: a call of the first reaction whose previous value differs
\* from its new value.
FirstNotificationWitness ==
  /\ nReact = 1 /\ Len(stack) = 1
  /\ CallArgs(Top)[2] # CallArgs(Top)[1]
  /\ CallArgs(Top)[2] = onChange(prevDepsState, nullDeps, null)

\* C11 (failure of combine), as claimed: when onChange throws in a reaction,
\* the bookkeeping store is left partially updated: depsState has taken the
\* source's new value while state has not been recomputed.
CombineFailureAsClaimed ==
  [][(constructed /\ thrown' = "CombineError") =>
       /\ state' = state
       /\ depsState' # depsState
       /\ \E i \in Sources : depsState' = [depsState EXCEPT ![i] = src'[i]]]_vars

\* C11 amended: when onChange throws in a reaction, the reaction ends before
\* its write: depsState, prevDepsState, state, prevState, depsSubs and the
\* members of the listener set are as before, no listener is called, and
\* state still is onChange of the recorded values; it is the source store
\* that holds a value which its slot of depsState does not.
CombineFailure ==
  /\ [](constructed =>
          /\ state # Threw
          /\ state = onChange(depsState, prevDepsState, prevState))
  /\ [][(constructed /\ thrown' = "CombineError") =>
          /\ UNCHANGED <<depsState, prevDepsState, state, prevState, depsSubs>>
          /\ Elems(listeners') = Elems(listeners)
          /\ ~InvokeStep
          /\ did'.write = 0 /\ did'.fanout = 0
          /\ \E i \in Sources : depsState'[i] # src'[i]]_vars

\* C11 witness: onChange has just thrown in a reaction run from inside a
\* listener callback, after an earlier reaction succeeded; the first source
\* holds 10 and its slot of depsState holds 2.
CombineFailureWitness ==
  /\ constructed /\ thrown = "CombineError" /\ stack # <<>> /\ nReact >= 1
  /\ src[1] = 10 /\ depsState[1] = 2

\* a step of subscribe or of an unsubscribe handle that changes anything
SubscriptionStep ==
  \/ handles' # handles
  \/ cancelled' # cancelled
  \/ Elems(listeners') # Elems(listeners)

\* C12 (no batching): onChange is called once by derive and once by every
\* reaction, and by nothing else; a source whose value changes always runs
\* the reaction, also from inside a listener callback; a reaction makes one
\* write (prevDepsState and prevState take the values depsState and state
\* had) and starts one forEach (one more loop in progress when there are
\* listeners); subscribe and unsubscribe call no onChange, and a call that
\* calls no onChange leaves the four fields alone.
NoBatching ==
  [][/\ (~constructed /\ constructed') => did' = Did(0, 1, 0, 0)
     /\ did'.combine = 1 => (~constructed \/ did'.notified = 1)
     /\ (constructed /\ src' # src) => did'.notified = 1
     /\ did'.notified = 1 =>
          /\ did' = Did(1, 1, 1, 1)
          /\ prevDepsState' = depsState /\ prevState' = state
          /\ depsState' = src' /\ state' = onChange(src', depsState, state)
          /\ Elems(listeners) # {} => Len(stack') = Len(stack) + 1
          /\ Elems(listeners) = {} => stack' = stack
     /\ SubscriptionStep => did'.combine = 0
     /\ did'.combine = 0 =>
          UNCHANGED <<depsState, prevDepsState, state, prevState>>]_vars

\* C12 witness: a second source change made from inside a listener callback
\* of the first has just been recomputed and is fanning out on its own.
NoBatchingWitness ==
  /\ did = Did(1, 1, 1, 1) /\ Len(stack) = 2 /\ nReact = 2
  /\ depsState # prevDepsState /\ state # prevState

\* C13 (previous-value bookkeeping), as claimed: prevDepsState and prevState
\* are null exactly as long as no reaction has run, and every reaction
\* leaves in prevDepsState the whole depsState and in prevState the state
\* that were there before it.
PrevBookkeepingAsClaimed ==
  /\ [](constructed => /\ (prevDepsState = nullDeps <=> nReact = 0)
                       /\ (prevState = null <=> nReact = 0))
  /\ [][did'.notified = 1 =>
          (prevDepsState' = depsState /\ prevState' = state)]_vars

\* C13 amended: prevDepsState is null exactly as long as no reaction has
\* written; prevState is null as long as no reaction has written, and later
\* whenever the state before the latest reaction was null; every reaction
\* leaves in prevDepsState the whole depsState and in prevState the state
\* that were there before it, and nothing else changes the two fields.
PrevBookkeeping ==
  /\ [](constructed => /\ (prevDepsState = nullDeps <=> nReact = 0)
                       /\ (nReact = 0 => prevState = null))
  /\ [][/\ did'.notified = 1 =>
             (prevDepsState' = depsState /\ prevState' = state)
        /\ did'.notified = 0 => UNCHANGED <<prevDepsState, prevState>>]_vars

\* C13 witness: a reaction has run from a null derived state: prevDepsState
\* holds the tuple of before, prevState is null and state is not.
PrevBookkeepingWitness ==
  /\ constructed /\ nReact = 1 /\ did.notified = 1
  /\ prevDepsState = <<10, 10>> /\ depsState = <<10, 3>>
  /\ prevState = null /\ state # null

\* C14 (non-null previous argument), as claimed: whatever onChange returns,
\* no listener is called with null as its previous-state argument.
NonNullPrevious ==
  [][InvokeStep => CalledWith[2] # null]_vars

\* C15 (source-subscription teardown): after construction depsSubs holds one
\* handle per source, the handle of source i at index i; a source whose
\* handle has been called stays unsubscribed, and a change of it calls no
\* onChange, changes no bookkeeping field and calls no listener, while a
\* change of a source whose handle has not been called runs the reaction;
\* once every handle has been called no step changes the derived value.
TeardownLaw ==
  /\ [](constructed => /\ Len(depsSubs) = NumSources
                       /\ \A i \in Sources : depsSubs[i] = i)
  /\ [][constructed =>
          /\ srcSubs' \subseteq srcSubs
          /\ \A i \in Sources :
               /\ (src'[i] # src[i] /\ i \notin srcSubs) =>
                    /\ did' = Idle
                    /\ UNCHANGED <<depsState, prevDepsState, state, prevState,
                                   depsSubs>>
                    /\ Elems(listeners') = Elems(listeners)
                    /\ ~InvokeStep
               /\ (src'[i] # src[i] /\ i \in srcSubs) =>
                    /\ did' = Did(1, 1, 1, 1)
                    /\ depsState' = [depsState EXCEPT ![i] = src'[i]]
                    /\ state' = onChange(depsState', depsState, state)
                    /\ Elems(listeners) # {} => InvokeStep
          /\ srcSubs = {} => GetState' = GetState]_vars

\* C15 witness: the handle of the first source has been called and the
\* first source changed since then; the second source has just changed and
\* a listener is being told of the value recomputed with the first slot as
\* it was.
TeardownWitness ==
  /\ constructed /\ srcSubs = {2} /\ did.notified = 1 /\ stack # <<>>
  /\ src = <<10, 10>> /\ depsState = <<2, 10>> /\ prevDepsState = <<2, 3>>
  /\ GetState = 12

\* C16 (stale unsubscribe handle), as claimed: the members of the listener
\* set change only when subscribe is called or a handle is called for the
\* first time; a call of a handle that has already been called leaves them
\* as they are.
StaleHandleNoOp ==
  [][Elems(listeners') # Elems(listeners) => handles' # handles]_vars

\* C17 (notification chain continuity), as claimed: a listener subscribed
\* without interruption is called with, as previous state, the new state of
\* its preceding call, or getState() as it was when it was subscribed if
\* this is its first call, provided none of the values is null.
ChainContinuity ==
  [][(/\ InvokeStep
      /\ last[Called] \notin {Unset, null}
      /\ stack'[Len(stack')].prevState # null
      /\ CalledWith[1] # null)
       => CalledWith[2] = last[Called]]_vars

\* C18 (frame of subscription operations): a step of subscribe or of an
\* unsubscribe handle, and any call that is neither derive nor a source
\* notification (getState among them), changes none of depsState,
\* prevDepsState, state, prevState and depsSubs; subscribe and unsubscribe
\* call no onChange, call no listener, start and end no forEach, and write
\* to no source; a reaction leaves the listener set and depsSubs as they
\* are.
SubscriptionFrame ==
  [][/\ SubscriptionStep =>
          /\ UNCHANGED <<depsState, prevDepsState, state, prevState, depsSubs>>
          /\ UNCHANGED <<src, srcSubs>>
          /\ did' = Idle
          /\ ~InvokeStep /\ Len(stack') = Len(stack)
     /\ (constructed /\ did'.notified = 0) =>
          UNCHANGED <<depsState, prevDepsState, state, prevState, depsSubs>>
     /\ did'.notified = 1 =>
          /\ listeners' = listeners /\ depsSubs' = depsSubs
          /\ UNCHANGED <<handles, cancelled>>]_vars

\* C18 witness: subscribe has been called from inside a listener callback of
\* a second reaction: the forEach in progress walks the Set of before, the
\* bookkeeping store holds a new one, and the four fields are those the
\* reaction wrote.
SubscriptionFrameWitness ==
  /\ stack # <<>> /\ ~Top.alias /\ Elems(listeners) # Elems(Top.entries)
  /\ nReact = 2 /\ did = Idle /\ ops = 1
  /\ state = Top.newState /\ prevState = Top.prevState /\ prevState # null

\* the entries the forEach of frame f has yet to visit, after the step
ToVisitAfter(f) ==
  LET walked == IF f.alias THEN listeners' ELSE f.entries
  IN {walked[j] : j \in f.idx..Len(walked)} \ {Empty}

\* C19, first half: a listener that subscribe adds to the listener set is
\* not among the entries a forEach in progress has yet to visit, so the
\* updates whose fan-outs are in progress do not call it; a fan-out started
\* later has it among the listeners it owes a call, calls no listener twice,
\* and ends only when it owes no call (a listener is owed none once a handle
\* of it is called).
AddedDuringFanOut ==
  /\ \A l \in Listeners :
       /\ (l \notin Elems(listeners) /\ l \in Elems(listeners')) =>
             \A k \in 1..Len(stack') : l \notin ToVisitAfter(stack'[k])
       /\ (Len(stack') > Len(stack) /\ l \in Elems(listeners)) =>
             l \in (stack'[Len(stack')].owed \cup stack'[Len(stack')].told)
  /\ (InvokeStep /\ Len(stack') = Len(stack)) => Called \notin Top.told
  /\ Len(stack') < Len(stack) => Top.owed = {}

\* C19 (listener-set changes during a fan-out), as claimed: the first half,
\* and in every state the listener set holds exactly the listeners that have
\* a handle not yet called.
ListenerSetDuringFanOut ==
  /\ [][AddedDuringFanOut]_vars
  /\ [](Elems(listeners) = {l \in Listeners : handles[l].live > 0})
====
